---- MODULE Spec2Model ----
(***************************************************************************)
(* Model of packages/plugin-mode-query/src/index.ts: the three actions of  *)
(* the Mode query plugin (GET_MODE_BALANCE, GET_MODE_BLOCK,                *)
(* GET_MODE_TRANSACTIONS).                                                 *)
(*                                                                         *)
(* Representation.  A JavaScript string is a sequence of fragments (TLA+   *)
(* strings) whose concatenation is the string; the message text and the    *)
(* decimal strings are sequences of one-character fragments, so that the   *)
(* regular expression and the number formatting work on characters.  An    *)
(* optional value (a field that may be undefined, a body that may be       *)
(* null) is a sequence of length 0 (absent) or 1 (present).                *)
(*                                                                         *)
(* A handler is an async function with one await: it runs as two atomic    *)
(* steps, from its entry to the await of axios.get (or to its return), and *)
(* from the settlement of that promise to its return.                      *)
(***************************************************************************)
EXTENDS Integers, Sequences, FiniteSets, TLC

VARIABLES pc, action, message, options, callback, address, requests,
          response, replies, logs, outcome

vars == <<pc, action, message, options, callback, address, requests,
          response, replies, logs, outcome>>

(***************************************************************************)
(* Bounds of the model.                                                    *)
(***************************************************************************)
\* longest transaction list a response carries
MaxTxs == 7
\* longest block list a response carries
MaxBlocks == 2

(***************************************************************************)
(* Optional values and strings.                                            *)
(***************************************************************************)
None == <<>>
Some(v) == <<v>>
IsSome(o) == Len(o) = 1

\* the characters of a string literal that the model takes apart
RECURSIVE Rep(_, _)
Rep(c, n) == IF n = 0 THEN <<>> ELSE <<c>> \o Rep(c, n - 1)

\* JavaScript truthiness of an optional string: present and not ""
Truthy(o) == IsSome(o) /\ o[1] # <<>>

\* a || b on an optional string a and a string b
OrElse(o, d) == IF Truthy(o) THEN o[1] ELSE d

(***************************************************************************)
(* The address pattern /0x[a-fA-F0-9]{40}/.                                *)
(***************************************************************************)
HexLen == 40

HexChars == {"0", "1", "2", "3", "4", "5", "6", "7", "8", "9",
             "a", "b", "c", "d", "e", "f", "A", "B", "C", "D", "E", "F"}

\* the pattern with the flag i: 0X is accepted as well
MatchesAtIgnoreCase(text, i) ==
    /\ i + 1 + HexLen <= Len(text)
    /\ text[i] = "0"
    /\ text[i + 1] \in {"x", "X"}
    /\ \A k \in 2 .. (HexLen + 1) : text[i + k] \in HexChars

\* the pattern matches at position i of text
MatchesAt(text, i) ==
    /\ i + 1 + HexLen <= Len(text)
    /\ text[i] = "0"
    /\ text[i + 1] = "x"
    /\ \A k \in 2 .. (HexLen + 1) : text[i + k] \in HexChars

\* String.prototype.match with a non-global pattern: the first (leftmost)
\* match, or null
addressMatch(text) ==
    IF \E i \in 1 .. Len(text) : MatchesAt(text, i)
    THEN LET i == CHOOSE j \in 1 .. Len(text) :
                      /\ MatchesAt(text, j)
                      /\ \A k \in 1 .. (j - 1) : ~MatchesAt(text, k)
         IN  Some(SubSeq(text, i, i + 1 + HexLen))
    ELSE None

\* addressMatch ? addressMatch[0] : options?.address
AddressOf(text, opts) ==
    IF IsSome(addressMatch(text)) THEN addressMatch(text)
    ELSE IF IsSome(opts) THEN opts[1] ELSE None

\* if (!address)
NoAddress(addr) == ~Truthy(addr)

(***************************************************************************)
(* (Number(balanceInWei) / 1e18).toFixed(5) on a decimal string.           *)
(* The division and the rounding are done on the decimal digits, rounding  *)
(* half up at the sixth decimal; the sampled balances are not within one   *)
(* double-precision ulp of a rounding tie.                                 *)
(***************************************************************************)
WeiDecimals == 18
FixedDigits == 5

DigitChars == <<"0", "1", "2", "3", "4", "5", "6", "7", "8", "9">>

DigitVal(c) == (CHOOSE i \in 1 .. 10 : DigitChars[i] = c) - 1

IsDigits(s) == s # <<>> /\ \A i \in 1 .. Len(s) : \E k \in 1 .. 10 : DigitChars[k] = s[i]

\* the digit string plus one
RECURSIVE Incr(_)
Incr(ds) ==
    IF ds = <<>> THEN <<"1">>
    ELSE LET n == Len(ds)
             last == DigitVal(ds[n])
         IN  IF last < 9 THEN SubSeq(ds, 1, n - 1) \o <<DigitChars[last + 2]>>
             ELSE Incr(SubSeq(ds, 1, n - 1)) \o <<"0">>

RECURSIVE StripZeros(_)
StripZeros(ds) ==
    IF Len(ds) > 1 /\ ds[1] = "0" THEN StripZeros(Tail(ds)) ELSE ds

\* the text of (Number(s) / 1e18).toFixed(5)
ToFixed(s) ==
    IF ~IsDigits(s) THEN <<"N", "a", "N">>
    ELSE LET pad == IF Len(s) < WeiDecimals + 1
                    THEN Rep("0", WeiDecimals + 1 - Len(s)) ELSE <<>>
             ds == pad \o s
             keep == Len(ds) - (WeiDecimals - FixedDigits)
             trunc == SubSeq(ds, 1, keep)
             scaled == IF DigitVal(ds[keep + 1]) >= 5 THEN Incr(trunc) ELSE trunc
             n == Len(scaled)
         IN  StripZeros(SubSeq(scaled, 1, n - FixedDigits))
                 \o <<".">> \o SubSeq(scaled, n - FixedDigits + 1, n)

\* response.data.coin_balance || '2'
balanceInWei(body) == OrElse(body.coin_balance, <<"2">>)

\* (Number(balanceInWei) / 1e18).toFixed(5)
balance(body) == ToFixed(balanceInWei(body))

(***************************************************************************)
(* Reply texts.                                                            *)
(***************************************************************************)
BLOCKSCOUT_API == <<"https://explorer.mode.network/api">>

Operation(act) ==
    CASE act = "GET_MODE_BALANCE" -> "balance"
      [] act = "GET_MODE_BLOCK" -> "latest block"
      [] act = "GET_MODE_TRANSACTIONS" -> "transactions"

AddressPrompt == <<"Please provide a valid Mode network address">>

\* 'Failed to fetch balance', 'Failed to fetch latest block', ...
FailedToFetch(act) == <<"Failed to fetch ", Operation(act)>>

\* response.data?.message || 'Failed to fetch ...'
FailureReply(act, data) ==
    IF IsSome(data) THEN OrElse(data[1].message, FailedToFetch(act))
    ELSE FailedToFetch(act)

\* the catch reply without the message of the error
CatchReplyGeneric(act, msg) == <<"Failed to fetch ", Operation(act)>>

\* `Failed to fetch balance: ${error.message}`
CatchReply(act, msg) == FailedToFetch(act) \o <<": ">> \o msg

\* `The balance for ${address} is ${balance} ETH`
BalanceReply(addr, body) ==
    <<"The balance for ">> \o addr \o <<" is ">> \o balance(body) \o <<" ETH">>

\* block.height || 'N/A'
OrNA(field) == OrElse(field, <<"N/A">>)

\* `Latest block:\nNumber: ...\nTimestamp: ...\nHash: ...`
BlockReply(block) ==
    <<"Latest block:", "\n", "Number: ">> \o OrNA(block.height)
        \o <<"\n", "Timestamp: ">> \o OrNA(block.timestamp)
        \o <<"\n", "Hash: ">> \o OrNA(block.hash)

\* `${tx.hash}`: a missing field is rendered as the text undefined
Interpolate(field) == IF IsSome(field) THEN field[1] ELSE <<"undefined">>

\* `Hash: ${tx.hash}\nValue: ${tx.value || '0'} ETH\nTimestamp: ${tx.timestamp || 'N/A'}`
TxLines(tx) ==
    <<"Hash: ">> \o Interpolate(tx.hash)
        \o <<"\n", "Value: ">> \o OrElse(tx.value, <<"0">>) \o <<" ETH">>
        \o <<"\n", "Timestamp: ">> \o OrNA(tx.timestamp)

\* the list without the slice
SliceAll(txs) == txs

\* transactions.slice(0, 5)
SliceLimit == 5
Slice(txs) == SubSeq(txs, 1, IF Len(txs) < SliceLimit THEN Len(txs) ELSE SliceLimit)

\* .map(...).join('\n\n')
RECURSIVE txSummary(_)
txSummary(txs) ==
    IF txs = <<>> THEN <<>>
    ELSE IF Len(txs) = 1 THEN TxLines(txs[1])
    ELSE TxLines(txs[1]) \o <<"\n", "\n">> \o txSummary(Tail(txs))

\* response.data.data?.items || []
transactions(body) ==
    IF IsSome(body.data) /\ IsSome(body.data[1].items)
    THEN body.data[1].items[1] ELSE <<>>

\* the reply of the success path of the transactions handler
TransactionsReply(addr, body) ==
    IF Len(transactions(body)) = 0
    THEN <<"No transactions found for ">> \o addr
    ELSE <<"Recent transactions for ">> \o addr \o <<":", "\n", "\n">>
             \o txSummary(Slice(transactions(body)))

\* the request URLs
BalanceUrl(addr) == BLOCKSCOUT_API \o <<"/v2/addresses/">> \o addr
BlocksUrl == BLOCKSCOUT_API \o <<"/v2/blocks">>
TransactionsUrl(addr) ==
    BLOCKSCOUT_API \o <<"/v2/addresses/">> \o addr \o <<"/transactions">>

\* the URL of the request of the balance or of the transactions handler
RequestUrl(act, addr) ==
    IF act = "GET_MODE_BALANCE" THEN BalanceUrl(addr) ELSE TransactionsUrl(addr)

(***************************************************************************)
(* The inputs of an invocation.                                            *)
(***************************************************************************)
\* the address of the examples of the actions, and two more
Addr1 == <<"0", "x", "7", "4", "2", "d", "3", "5", "C", "c", "6", "6", "3", "4", "C", "0", "5", "3", "2", "9", "2", "5", "a", "3", "b", "8", "4", "4", "B", "c", "4", "5", "4", "e", "4", "4", "3", "8", "f", "4", "4", "e">>
Addr2 == <<"0", "x", "0", "0", "0", "0", "0", "0", "0", "0", "0", "0", "0", "0", "0", "0", "0", "0", "0", "0", "0", "0", "0", "0", "0", "0", "0", "0", "0", "0", "0", "0", "0", "0", "D", "e", "a", "D", "B", "e", "e", "f">>
Addr3 == <<"0", "x", "A", "B", "C", "D", "E", "F", "a", "b", "c", "d", "e", "f", "0", "1", "2", "3", "4", "5", "6", "7", "8", "9", "A", "B", "C", "D", "E", "F", "a", "b", "c", "d", "e", "f", "0", "1", "2", "3", "4", "5">>

\* message.content.text: missing, or a text
Texts ==
    { None,
      Some(<<>>),
      Some(<<"W", "h", "a", "t", "'", "s", " ", "t", "h", "e", " ", "l", "a", "t", "e", "s", "t", " ", "b", "l", "o", "c", "k", " ", "o", "n", " ", "M", "o", "d", "e", "?">>),
      Some(<<"W", "h", "a", "t", "'", "s", " ", "t", "h", "e", " ", "b", "a", "l", "a", "n", "c", "e", " ", "o", "f", " ">> \o Addr1 \o <<"?">>),
      Some(Addr1),
      Some(SubSeq(Addr1, 1, HexLen + 1) \o <<"?">>),
      Some(<<"0", "X">> \o SubSeq(Addr1, 3, HexLen + 2)),
      Some(SubSeq(Addr1, 1, 22) \o <<"g">> \o SubSeq(Addr1, 23, HexLen + 2)),
      Some(Addr1 \o <<"9">>),
      Some(<<"0", "x", "1", "2", " ">> \o Addr2 \o <<" ">> \o Addr1),
      Some(<<"0", "x">> \o Addr2) }

\* options: undefined, or an object whose address is missing, "" or a string
Options ==
    { None, Some(None), Some(Some(<<>>)), Some(Some(Addr3)),
      Some(Some(<<"vitalik.eth">>)) }

\* callback: undefined, a function that returns, one that throws on every
\* call, one that throws on its first call only
Callbacks == {"none", "returns", "throws", "throwsOnce"}

\* error.message of a rejected axios.get
ErrorMessages ==
    { <<"Network Error">>, <<"Request failed with status code 404">>, <<>> }

\* the message of the error a throwing callback raises
CallbackError == <<"callback failed">>

\* the message of the TypeError raised by a property read on undefined or null
TypeErrorMessage(what, prop) ==
    <<"Cannot read properties of ", what, " (reading '", prop, "')">>

(***************************************************************************)
(* The responses of the explorer.  A body is a BlockscoutResponse: every   *)
(* field may be missing.                                                   *)
(***************************************************************************)
Body(st, msg, coin, its, dat) ==
    [status |-> st, message |-> msg, coin_balance |-> coin, items |-> its,
     data |-> dat]

Statuses == {None, Some("success"), Some("error")}

Messages == {None, Some(<<>>), Some(<<"Address not found">>)}

CoinBalances ==
    { None,
      Some(<<>>),
      Some(<<"0">>),
      Some(<<"1", "0", "0", "0", "0", "0", "0", "0", "0", "0", "0", "0", "0", "0", "0", "0", "0", "0", "0">>),
      Some(<<"1", "5", "0", "0", "0", "0", "0", "0", "0", "0", "0", "0", "0", "0", "0", "0", "0", "0", "0">>),
      Some(<<"1", "2", "3", "4", "5", "6", "7", "8", "9", "0", "1", "2", "3", "4", "5", "6", "7", "8">>),
      Some(<<"9", "9", "9", "9", "9", "9", "9", "9", "9", "9", "9", "9", "9", "9", "9", "9", "9", "9">>),
      Some(<<"1", "2", "3", "4", "5", "6", "7", "8", "9", "0", "1", "2", "3", "4", "5", "6", "7", "8", "9", "0", "1", "2", "3">>),
      Some(<<"a", "b", "c">>) }

BalanceBodies ==
    { Body(st, msg, coin, None, None) :
          st \in Statuses, msg \in Messages, coin \in CoinBalances }

\* a Block; some of its fields may be missing or empty
BlockOf(h, t, x) == [height |-> h, timestamp |-> t, hash |-> x]

FirstBlocks ==
    { BlockOf(h, t, x) :
          h \in {None, Some(<<"100">>)},
          t \in {None, Some(<<>>), Some(<<"T1">>)},
          x \in {None, Some(<<"H1">>)} }

\* the i-th older block of a list
OlderBlock(i) ==
    BlockOf(Some(<<"99", "-", ToString(i)>>), Some(<<"T0">>), Some(<<"H0">>))

BlockLists ==
    { <<>> } \cup
    { <<b>> \o [i \in 1 .. (n - 1) |-> OlderBlock(i)] :
          b \in FirstBlocks, n \in 1 .. MaxBlocks }

BlockBodies ==
    { Body(st, msg, None, its, None) :
          st \in Statuses, msg \in Messages,
          its \in {None} \cup {Some(l) : l \in BlockLists} }

\* the i-th Transaction of a list: its hash names its position, and the
\* fields missing or empty rotate with i + k
TxOf(i, k) ==
    LET v == (i + k) % 4
    IN  [hash |-> IF v = 3 THEN None ELSE Some(<<"0xhash", ToString(i)>>),
         value |-> IF v = 1 THEN None
                   ELSE IF v = 3 THEN Some(<<>>)
                   ELSE Some(<<ToString(i), "000">>),
         timestamp |-> IF v = 2 THEN None ELSE Some(<<"T", ToString(i)>>)]

TxLists == { [i \in 1 .. n |-> TxOf(i, k)] : n \in 0 .. MaxTxs, k \in 0 .. 3 }

TransactionBodies ==
    { Body(st, msg, None, None, dat) :
          st \in Statuses, msg \in Messages,
          dat \in {None, Some([items |-> None])}
                     \cup {Some([items |-> Some(l)]) : l \in TxLists} }

\* the settlement of axios.get: not called, pending, resolved with
\* response.data, rejected with an error
NotCalled == [kind |-> "none", data |-> None, error |-> <<>>]
Pending == [kind |-> "pending", data |-> None, error |-> <<>>]
Resolved(d) == [kind |-> "resolved", data |-> d, error |-> <<>>]
Rejected(m) == [kind |-> "rejected", data |-> None, error |-> m]

\* response.data.status == 'success'
StatusIsSuccess(body) == body.status = Some("success")

(***************************************************************************)
(* The callback and the catch block.  A run of a handler is the record of  *)
(* the payloads passed to the callback (replies), the log entries (logs)   *)
(* and how the handler ended (outcome).                                    *)
(***************************************************************************)
\* the handler without its first line
HasCallbackAlways(cb) == TRUE

\* if (!callback) return;
HasCallback(cb) == cb # "none"

\* the n+1-th call of the callback throws (calling undefined throws too)
CallbackThrows(cb, n) ==
    cb = "none" \/ cb = "throws" \/ (cb = "throwsOnce" /\ n = 0)

\* the message of the error a call of the callback raises
ThrownBy(cb) ==
    IF cb = "none" THEN <<"callback is not a function">> ELSE CallbackError

\* the payloads the callback has received once it is called with text
Called(cb, r, text) == IF cb = "none" THEN r.replies ELSE Append(r.replies, text)

\* a catch block that logs the error and does not reply
CatchSilent(act, cb, r, msg) ==
    [replies |-> r.replies,
     logs |-> Append(r.logs, "elizaLogger.error"),
     outcome |-> "returned"]

\* catch (error) { elizaLogger.error(...); callback({text: `Failed ...`}) }
\* an error the callback throws here leaves the handler
Catch(act, cb, r, msg) ==
    [replies |-> Called(cb, r, CatchReply(act, msg)),
     logs |-> Append(r.logs, "elizaLogger.error"),
     outcome |-> IF CallbackThrows(cb, Len(r.replies))
                 THEN "rejected" ELSE "returned"]

\* callback({text}) inside the try block, followed by the return or the end
\* of the block; an error the callback throws is caught by the catch block
TryReply(act, cb, r, text) ==
    IF CallbackThrows(cb, Len(r.replies))
    THEN Catch(act, cb, [r EXCEPT !.replies = Called(cb, r, text)], ThrownBy(cb))
    ELSE [replies |-> Called(cb, r, text), logs |-> r.logs,
          outcome |-> "returned"]

\* a run in which nothing has happened yet
Fresh == [replies |-> <<>>, logs |-> <<>>]

\* r with one more log entry
Logged(r, entry) == [r EXCEPT !.logs = Append(@, entry)]

(***************************************************************************)
(* The state machine.                                                      *)
(***************************************************************************)
Init ==
    /\ pc = "idle"
    /\ action = "none"
    /\ message = None
    /\ options = None
    /\ callback = "none"
    /\ address = None
    /\ requests = <<>>
    /\ response = NotCalled
    /\ replies = <<>>
    /\ logs = <<>>
    /\ outcome = "pending"

\* the host invokes the handler of act
Start(act, m, o, cb) ==
    /\ pc = "idle"
    /\ action' = act
    /\ message' = m
    /\ options' = o
    /\ callback' = cb

\* the handler returns or rejects
Finish(res) ==
    /\ pc' = "done"
    /\ replies' = res.replies
    /\ logs' = res.logs
    /\ outcome' = res.outcome

\* the handler awaits axios.get(url)
Await(url, addr) ==
    /\ pc' = "await"
    /\ address' = addr
    /\ requests' = Append(requests, url)
    /\ response' = Pending
    /\ UNCHANGED <<replies, logs, outcome>>

\* the awaited promise settles
Settle(act, res) ==
    /\ pc = "await"
    /\ action = act
    /\ response' = res
    /\ UNCHANGED <<action, message, options, callback, address, requests>>

\* lines 71-81 and 193-203: the address, the prompt or the request
WithAddress(act, m, o, cb) ==
    IF ~IsSome(m)
    THEN /\ Finish(Catch(act, cb, Fresh, TypeErrorMessage("undefined", "match")))
         /\ UNCHANGED <<address, requests, response>>
    ELSE IF NoAddress(AddressOf(m[1], o))
    THEN /\ Finish(TryReply(act, cb, Fresh, AddressPrompt))
         /\ UNCHANGED <<address, requests, response>>
    ELSE Await(RequestUrl(act, AddressOf(m[1], o)[1]), AddressOf(m[1], o))

\* getBalance.handler, up to the await
getBalance(m, o, cb) ==
    /\ Start("GET_MODE_BALANCE", m, o, cb)
    /\ IF ~HasCallback(cb)
       THEN /\ Finish([replies |-> <<>>, logs |-> <<>>, outcome |-> "returned"])
            /\ UNCHANGED <<address, requests, response>>
       ELSE WithAddress("GET_MODE_BALANCE", m, o, cb)

\* if (!response.data || response.data.status == 'success')
BalanceFailed(d) == ~IsSome(d) \/ StatusIsSuccess(d[1])

\* getBalance.handler, after axios.get resolves with response.data = d
getBalanceResolved(d) ==
    /\ Settle("GET_MODE_BALANCE", Resolved(d))
    /\ IF BalanceFailed(d)
       THEN Finish(TryReply(action, callback, Fresh, FailureReply(action, d)))
       ELSE Finish(TryReply(action, callback,
                            Logged(Logged(Fresh, "console.log"), "elizaLogger.log"),
                            BalanceReply(address[1], d[1])))

\* getBalance.handler, after axios.get rejects with an error whose message is e
getBalanceRejected(e) ==
    /\ Settle("GET_MODE_BALANCE", Rejected(e))
    /\ Finish(Catch(action, callback, Fresh, e))

\* getLatestBlock.handler, up to the await
getLatestBlock(m, o, cb) ==
    /\ Start("GET_MODE_BLOCK", m, o, cb)
    /\ IF ~HasCallback(cb)
       THEN /\ Finish([replies |-> <<>>, logs |-> <<>>, outcome |-> "returned"])
            /\ UNCHANGED <<address, requests, response>>
       ELSE Await(BlocksUrl, None)

\* if (!response.data || response.data.status == 'success')
BlockFailed(d) == ~IsSome(d) \/ StatusIsSuccess(d[1])

\* getLatestBlock.handler, after axios.get resolves with response.data = d
getLatestBlockResolved(d) ==
    /\ Settle("GET_MODE_BLOCK", Resolved(d))
    /\ IF ~IsSome(d)
       THEN Finish(Catch(action, callback, Fresh, TypeErrorMessage("null", "items")))
       ELSE IF ~IsSome(d[1].items)
       THEN Finish(Catch(action, callback, Fresh, TypeErrorMessage("undefined", "0")))
       ELSE IF BlockFailed(d)
       THEN Finish(TryReply(action, callback, Logged(Fresh, "console.log"),
                            FailureReply(action, d)))
       ELSE IF d[1].items[1] = <<>>
       THEN Finish(Catch(action, callback, Logged(Fresh, "console.log"),
                         TypeErrorMessage("undefined", "height")))
       ELSE Finish(TryReply(action, callback, Logged(Fresh, "console.log"),
                            BlockReply(d[1].items[1][1])))

\* getLatestBlock.handler, after axios.get rejects with an error whose message is e
getLatestBlockRejected(e) ==
    /\ Settle("GET_MODE_BLOCK", Rejected(e))
    /\ Finish(Catch(action, callback, Fresh, e))

\* getTransactions.handler, up to the await
getTransactions(m, o, cb) ==
    /\ Start("GET_MODE_TRANSACTIONS", m, o, cb)
    /\ IF ~HasCallback(cb)
       THEN /\ Finish([replies |-> <<>>, logs |-> <<>>, outcome |-> "returned"])
            /\ UNCHANGED <<address, requests, response>>
       ELSE WithAddress("GET_MODE_TRANSACTIONS", m, o, cb)

\* if (!response.data || response.data.status !== 'success')
TransactionsFailed(d) == ~IsSome(d) \/ ~StatusIsSuccess(d[1])

\* getTransactions.handler, after axios.get resolves with response.data = d
getTransactionsResolved(d) ==
    /\ Settle("GET_MODE_TRANSACTIONS", Resolved(d))
    /\ IF TransactionsFailed(d)
       THEN Finish(TryReply(action, callback, Fresh, FailureReply(action, d)))
       ELSE Finish(TryReply(action, callback, Fresh,
                            TransactionsReply(address[1], d[1])))

\* getTransactions.handler, after axios.get rejects with an error whose message is e
getTransactionsRejected(e) ==
    /\ Settle("GET_MODE_TRANSACTIONS", Rejected(e))
    /\ Finish(Catch(action, callback, Fresh, e))

Next ==
    \/ \E m \in Texts, o \in Options, cb \in Callbacks : getBalance(m, o, cb)
    \/ \E d \in {None} \cup {Some(b) : b \in BalanceBodies} : getBalanceResolved(d)
    \/ \E e \in ErrorMessages : getBalanceRejected(e)
    \/ \E m \in Texts, o \in Options, cb \in Callbacks : getLatestBlock(m, o, cb)
    \/ \E d \in {None} \cup {Some(b) : b \in BlockBodies} : getLatestBlockResolved(d)
    \/ \E e \in ErrorMessages : getLatestBlockRejected(e)
    \/ \E m \in Texts, o \in Options, cb \in Callbacks : getTransactions(m, o, cb)
    \/ \E d \in {None} \cup {Some(b) : b \in TransactionBodies} :
           getTransactionsResolved(d)
    \/ \E e \in ErrorMessages : getTransactionsRejected(e)

Spec == Init /\ [][Next]_vars

TypeOK ==
    /\ pc \in {"idle", "await", "done"}
    /\ outcome \in {"pending", "returned", "rejected"}
    /\ Len(requests) <= 1

(***************************************************************************)
(* Properties.                                                             *)
(***************************************************************************)
Done == pc = "done"

\* the HTTP call of the invocation resolved with a body
ResolvedWithBody == response.kind = "resolved" /\ IsSome(response.data)

\* the name of the operation in the failure texts, as the specification
\* spells it
OperationName ==
    IF action = "GET_MODE_BALANCE" THEN "balance"
    ELSE IF action = "GET_MODE_BLOCK" THEN "latest block"
    ELSE "transactions"

\* C1: with a callback that returns normally, the callback is invoked exactly
\* once per invocation of any of the three handlers, whatever the text, the
\* options and the outcome of the HTTP call are: never before the handler has
\* its reply, exactly once when the handler has finished.
C1_CallbackExactlyOnce ==
    callback = "returns" =>
        /\ Done => Len(replies) = 1 /\ outcome = "returned"
        /\ ~Done => Len(replies) = 0

\* C1 witness: the blocks call resolved with a body whose block list is
\* empty, and the callback that returns was invoked once
C1_Witness ==
    /\ Done
    /\ callback = "returns"
    /\ action = "GET_MODE_BLOCK"
    /\ ResolvedWithBody
    /\ response.data[1].items = Some(<<>>)
    /\ Len(replies) = 1

\* C2: a handler invoked without a callback finishes at once with no HTTP
\* request, no log entry and no reply, whatever the text and the options are.
C2_NoCallbackNoEffect ==
    (action # "none" /\ callback = "none") =>
        /\ Done
        /\ outcome = "returned"
        /\ requests = <<>>
        /\ response = NotCalled
        /\ logs = <<>>
        /\ replies = <<>>

\* C2 witness: the transactions handler was invoked without a callback on a
\* text that holds an address
C2_Witness ==
    /\ Done
    /\ callback = "none"
    /\ action = "GET_MODE_TRANSACTIONS"
    /\ message = Some(Addr1)
    /\ requests = <<>>

\* the text has a substring 0x followed by 40 hexadecimal characters
C3_HasAddressShape(text) ==
    \E i \in 1 .. Len(text) :
        /\ i + 41 <= Len(text)
        /\ text[i] = "0"
        /\ text[i + 1] = "x"
        /\ \A k \in (i + 2) .. (i + 41) : text[k] \in HexChars

\* the case of C3: the balance or the transactions handler, with a callback,
\* on a text without an address and options without an address
C3_Case ==
    /\ action \in {"GET_MODE_BALANCE", "GET_MODE_TRANSACTIONS"}
    /\ callback # "none"
    /\ IsSome(message)
    /\ ~C3_HasAddressShape(message[1])
    /\ options \in {None, Some(None)}

\* C3: in the balance and transactions handlers, a text without a substring
\* 0x + 40 hex characters and options without an address give the reply
\* "Please provide a valid Mode network address", and no HTTP request is
\* issued during the invocation.
C3_PromptWithoutAddress ==
    C3_Case =>
        /\ Done
        /\ requests = <<>>
        /\ response = NotCalled
        /\ replies # <<>>
        /\ replies[1] = <<"Please provide a valid Mode network address">>
        /\ callback = "returns" => Len(replies) = 1

\* C3 witness: the balance handler replied the prompt to a text whose 0x is
\* followed by 39 hexadecimal characters only
C3_Witness ==
    /\ C3_Case
    /\ Done
    /\ action = "GET_MODE_BALANCE"
    /\ callback = "returns"
    /\ message = Some(SubSeq(Addr1, 1, 41) \o <<"?">>)
    /\ replies = <<AddressPrompt>>

\* C4: when the HTTP call rejects with an error whose message is m, the
\* callback is invoked exactly once, with "Failed to fetch {operation}: "
\* followed by m.
C4_RejectionReply ==
    (Done /\ response.kind = "rejected") =>
        replies = << <<"Failed to fetch ", OperationName, ": ">> \o response.error >>

\* C4 witness: the blocks call rejected with "Network Error" and the reply
\* was delivered
C4_Witness ==
    /\ Done
    /\ action = "GET_MODE_BLOCK"
    /\ callback = "returns"
    /\ response = Rejected(<<"Network Error">>)
    /\ replies = << <<"Failed to fetch ", "latest block", ": ", "Network Error">> >>

\* the failure reply the specification describes for the body d: its message
\* when it has one, the generic text otherwise
C5_IsFailureReply(text, d) ==
    IF IsSome(d) /\ Truthy(d[1].message)
    THEN text = d[1].message[1]
    ELSE text = <<"Failed to fetch ", OperationName>>

\* C5: in each handler, when the HTTP call resolves with no body or with a
\* body whose status is not 'success', the reply is the failure reply: the
\* message of the body, or "Failed to fetch {operation}".
C5_FailureStatusGivesFailureReply ==
    (/\ Done
     /\ callback = "returns"
     /\ response.kind = "resolved"
     /\ (IsSome(response.data) => response.data[1].status # Some("success"))) =>
        /\ Len(replies) = 1
        /\ C5_IsFailureReply(replies[1], response.data)

\* C6: in the balance handler, a response of status 'success' whose
\* coin_balance is the decimal string of w wei gives the reply
\* "The balance for a is b ETH", b being w / 10^18 with 5 decimals.
C6_SuccessBalanceReply ==
    (/\ Done
     /\ action = "GET_MODE_BALANCE"
     /\ callback = "returns"
     /\ ResolvedWithBody
     /\ response.data[1].status = Some("success")
     /\ IsSome(response.data[1].coin_balance)
     /\ IsDigits(response.data[1].coin_balance[1])) =>
        replies = << <<"The balance for ">> \o address[1] \o <<" is ">>
                        \o ToFixed(response.data[1].coin_balance[1])
                        \o <<" ETH">> >>

\* the first item of the block list of a body, when it has one
C7_HasFirstBlock(d) ==
    IsSome(d) /\ IsSome(d[1].items) /\ d[1].items[1] # <<>>

\* a field of a block, "N/A" when it is missing
C7_Field(f) == IF IsSome(f) /\ f[1] # <<>> THEN f[1] ELSE <<"N/A">>

\* C7: in the latest-block handler, a response of status 'success' whose
\* list has a first item gives the reply "Latest block:\nNumber: h\n
\* Timestamp: t\nHash: x" of that first item, "N/A" standing for a missing
\* field.
C7_SuccessBlockReply ==
    (/\ Done
     /\ action = "GET_MODE_BLOCK"
     /\ callback = "returns"
     /\ C7_HasFirstBlock(response.data)
     /\ response.data[1].status = Some("success")) =>
        LET b == response.data[1].items[1][1]
        IN  replies = << <<"Latest block:", "\n", "Number: ">> \o C7_Field(b.height)
                             \o <<"\n", "Timestamp: ">> \o C7_Field(b.timestamp)
                             \o <<"\n", "Hash: ">> \o C7_Field(b.hash) >>

\* the transaction list of a body: data.items, empty when it is absent
C8_List(d) ==
    IF IsSome(d[1].data) /\ IsSome(d[1].data[1].items)
    THEN d[1].data[1].items[1] ELSE <<>>

\* the three lines of one entry
C8_Entry(tx) ==
    <<"Hash: ">> \o (IF IsSome(tx.hash) THEN tx.hash[1] ELSE <<"undefined">>)
        \o <<"\n", "Value: ">>
        \o (IF IsSome(tx.value) /\ tx.value[1] # <<>> THEN tx.value[1] ELSE <<"0">>)
        \o <<" ETH", "\n", "Timestamp: ">>
        \o (IF IsSome(tx.timestamp) /\ tx.timestamp[1] # <<>>
            THEN tx.timestamp[1] ELSE <<"N/A">>)

\* the entries i .. last of txs in their order, a blank line between two
RECURSIVE C8_Entries(_, _, _)
C8_Entries(txs, i, last) ==
    IF i > last THEN <<>>
    ELSE IF i = last THEN C8_Entry(txs[i])
    ELSE C8_Entry(txs[i]) \o <<"\n", "\n">> \o C8_Entries(txs, i + 1, last)

\* the case of C8: the transactions call resolved with status 'success'
C8_Case ==
    /\ Done
    /\ action = "GET_MODE_TRANSACTIONS"
    /\ callback = "returns"
    /\ ResolvedWithBody
    /\ response.data[1].status = Some("success")

\* C8: in the transactions handler, a response of status 'success' with a
\* list of n entries gives "No transactions found for a" when n = 0 or the
\* list is absent, and otherwise the header "Recent transactions for a:"
\* followed by the first min(n, 5) entries in their order, three lines each,
\* a blank line between entries; entries 6 and later do not appear.
C8_TransactionsReply ==
    C8_Case =>
        LET txs == C8_List(response.data)
            n == Len(txs)
            shown == IF n < 5 THEN n ELSE 5
        IN  replies =
                << IF n = 0
                   THEN <<"No transactions found for ">> \o address[1]
                   ELSE <<"Recent transactions for ">> \o address[1]
                            \o <<":", "\n", "\n">> \o C8_Entries(txs, 1, shown) >>

\* C8 witness: a list of 7 entries was rendered
C8_Witness ==
    /\ C8_Case
    /\ Len(C8_List(response.data)) = 7
    /\ Len(replies) = 1
    /\ replies[1][1] = "Recent transactions for "

\* C9: no invocation throws or rejects to the host: every handler completes
\* normally, after delivering a reply when it has a callback, and issues at
\* most one HTTP request.
C9_NeverRejects ==
    /\ Len(requests) <= 1
    /\ Done => /\ outcome = "returned"
               /\ callback # "none" => replies # <<>>

\* C10: the callback is invoked at most once per invocation, also when the
\* callback throws while it is invoked.
C10_AtMostOnceWhenThrowing == Len(replies) <= 1

====
